---- MODULE Spec2Model ----
(***************************************************************************)
(* SearchTogether: the TreasureHunt ledger contract, the TreasureClaim     *)
(* circuit that produces claim proofs, and the verifier the ledger calls.  *)
(*                                                                         *)
(* Every contract call is one atomic transaction.  A call that reverts     *)
(* leaves the state as it was, so it is a stuttering step; the reason a    *)
(* call reverts with is computed by the ...Result operators, which walk    *)
(* the require statements in the order of the source.                      *)
(***************************************************************************)
EXTENDS Integers, Sequences, FiniteSets, Bags, TLC

(***************************************************************************)
(* Bounds of the model.                                                    *)
(***************************************************************************)
MaxInstants == 3  \* number of block timestamps a run visits
MaxValue == 2     \* msg.value of a payable call is at most MaxValue + 1
MaxPurchases == 2 \* number of hint purchases accepted over a run

(***************************************************************************)
(* Program constants.                                                      *)
(***************************************************************************)
DAY == 86400                          \* Solidity's "1 days", in seconds
WITHDRAWAL_INTERVAL == 1 * DAY
WITHDRAWAL_PERCENT == 50
MIN_HIDER_LOCKOUT == 0
MAX_HUNT_DURATION == 90 * DAY
RADIUS_SCALED == 100
RADIUS_SQUARED == RADIUS_SCALED * RADIUS_SCALED

ZeroAddress == 0
Addresses == {1, 2}                   \* externally owned accounts
HuntIds == {0, 1}                     \* the ids a caller passes

\* block.timestamp is positive and moves forward; the instants visited
Instant(i) == (i \div 2) * DAY + (i % 2)        \* 1, DAY, DAY + 1, 2 DAY, ...
Genesis == Instant(1)
TimePoints == { Instant(i) : i \in 1 .. MaxInstants }

(***************************************************************************)
(* Commitment scheme.  Poseidon is collision resistant: a hash is modelled *)
(* by the term of its inputs.  The uint256 zero is the empty term.         *)
(* The inputs of a hash are field elements: gps.js hands BigInts to the    *)
(* library, which takes each of them into the field (F.e), negative        *)
(* coordinates and values of the modulus or more included.  FieldModulus   *)
(* stands for the BN254 scalar field prime, scaled to a prime above every  *)
(* coordinate, radius and address of the model.                            *)
(***************************************************************************)
ZeroField == << >>
Poseidon(inputs) == inputs

FieldModulus == 10007
toField(x) == x % FieldModulus

\* poseidonHash over numbers: no range check, the library reduces
poseidonHash(inputs) == Poseidon([ i \in DOMAIN inputs |-> toField(inputs[i]) ])

\* variant: latitude and longitude change places
computeLocationCommitment_SwappedCoordinates(lat, lon, radiusSquared) ==
    poseidonHash(<<lon, lat, radiusSquared>>)
computeLocationCommitment(lat, lon, radiusSquared) == poseidonHash(<<lat, lon, radiusSquared>>)
computeSecretHash(secret) == poseidonHash(<<secret>>)
\* variant: the claimer's identity is left out of the hash
computeClaimCommitment_NoClaimer(locationCommitment, secretHash, claimerAddress) ==
    Poseidon(<<locationCommitment, secretHash, ZeroAddress>>)
\* the two hashes come in as field elements already, the address as a number
computeClaimCommitment(locationCommitment, secretHash, claimerAddress) ==
    Poseidon(<<locationCommitment, secretHash, toField(claimerAddress)>>)

\* gps.js distance helpers
distanceSquared(lat1, lon1, lat2, lon2) ==
    LET latDiff == lat1 - lat2
        lonDiff == lon1 - lon2
    IN  latDiff * latDiff + lonDiff * lonDiff
isWithinRadius(lat1, lon1, lat2, lon2) ==
    distanceSquared(lat1, lon1, lat2, lon2) <= RADIUS_SQUARED
\* the web client's gate before proof generation
checkDistance(myLat, myLon, targetLat, targetLon) ==
    LET latDiff == myLat - targetLat
        lonDiff == myLon - targetLon
        distSquared == latDiff * latDiff + lonDiff * lonDiff
    IN  distSquared <= RADIUS_SQUARED

\* what a claim commitment binds (readable because hashes are terms)
LocationOf(cc) == cc[1]
ClaimerOf(cc) == cc[3]

(***************************************************************************)
(* The circuit.                                                            *)
(***************************************************************************)
\* LessThan(64): out = 1 iff in[0] < in[1]
LessThan(a, b) == IF a < b THEN 1 ELSE 0

DistanceCheck(myLat, myLon, targetLat, targetLon, maxDistSquared) ==
    LET latDiff == myLat - targetLat
        lonDiff == myLon - targetLon
        distSquared == latDiff * latDiff + lonDiff * lonDiff
    IN  LessThan(distSquared, maxDistSquared)

\* the witness satisfies the constraints or not, and the public output.
\* A signal is a field element: witness generation takes every input into
\* the field.  The distance is computed on the integers, coordinates and
\* their squares being far below the modulus of the real field.
TreasureClaim(secret, gpsLat, gpsLon, targetLat, targetLon, radiusSquared, claimerAddress) ==
    LET locationCommitment ==
            Poseidon(<<toField(targetLat), toField(targetLon), toField(radiusSquared)>>)
        secretHash == Poseidon(<<toField(secret)>>)
    IN  [ satisfied |-> DistanceCheck(gpsLat, gpsLon, targetLat, targetLon, radiusSquared) = 1,
          claimCommitment |->
              Poseidon(<<locationCommitment, secretHash, toField(claimerAddress)>>) ]

\* inputs of proof generation
Points == { <<0, 0>>, <<RADIUS_SCALED, 0>> }
Secrets == { 7 }

\* a proof attests one public signal; BogusProof attests nothing
ProofFor(cc) == [ signal |-> cc ]
BogusProof == [ signal |-> ZeroField ]

\* snarkjs.groth16.fullProve: a proof of the circuit's output, or none when
\* the witness breaks a constraint
fullProve(secret, gps, target, radiusSquared, claimerAddress) ==
    LET c == TreasureClaim(secret, gps[1], gps[2], target[1], target[2],
                           radiusSquared, claimerAddress)
    IN  IF c.satisfied THEN ProofFor(c.claimCommitment) ELSE BogusProof

\* a signal that no proof submitted attests
WrongSignal == computeClaimCommitment(ZeroField, computeSecretHash(0), ZeroAddress)

\* every proof anybody can hold: witnesses are private inputs the prover picks
ValidProofs ==
    { fullProve(s, gps, target, RADIUS_SQUARED, a) :
        s \in Secrets, gps \in Points, target \in Points, a \in Addresses } \ { BogusProof }

(***************************************************************************)
(* State.                                                                  *)
(***************************************************************************)
VARIABLES
    now,                 \* block.timestamp
    huntCounter,
    hunts,               \* mapping(uint256 => Hunt)
    claims,              \* mapping(uint256 => Claim)
    contributions,       \* mapping(uint256 => mapping(address => uint256))
    hasPurchasedHint,    \* mapping(uint256 => mapping(address => bool))
    totalContributions,  \* mapping(uint256 => uint256)
    balance,             \* ether held by the contract
    received,            \* ether the contract has sent to each account
    events,              \* the events delivered to the watcher, a bag
    calc,                \* the off-chain computation at hand: function, inputs, outputs
    app                  \* the web client: its state object, controls and pending work

vars == << now, huntCounter, hunts, claims, contributions, hasPurchasedHint,
           totalContributions, balance, received, events, calc, app >>

ledger == << huntCounter, hunts, claims, contributions, hasPurchasedHint,
             totalContributions, balance, received >>

\* a mapping entry never written reads as zero; HuntStatus 0 is Active
EmptyHunt ==
    [ hider |-> ZeroAddress, locationCommitment |-> ZeroField, initialPrize |-> 0,
      createdAt |-> 0, claimableAfter |-> 0, expiresAt |-> 0, hintPrice |-> 0,
      status |-> "Active" ]
EmptyClaim ==
    [ claimer |-> ZeroAddress, claimTime |-> 0, lastWithdrawal |-> 0, totalWithdrawn |-> 0 ]

\* the events of the contract; data carries what HuntCreated adds
HuntCreated(huntId, hider, locationCommitment, prize, claimableAfter) ==
    [ type |-> "HuntCreated", huntId |-> huntId, account |-> hider, amount |-> prize,
      data |-> <<locationCommitment, claimableAfter>> ]
HintPurchased(huntId, seeker, amount) ==
    [ type |-> "HintPurchased", huntId |-> huntId, account |-> seeker, amount |-> amount,
      data |-> << >> ]
ClaimSubmitted(huntId, claimer) ==
    [ type |-> "ClaimSubmitted", huntId |-> huntId, account |-> claimer, amount |-> 0,
      data |-> << >> ]
Withdrawal(huntId, claimer, amount) ==
    [ type |-> "Withdrawal", huntId |-> huntId, account |-> claimer, amount |-> amount,
      data |-> << >> ]
HuntExpired(huntId) ==
    [ type |-> "HuntExpired", huntId |-> huntId, account |-> ZeroAddress, amount |-> 0,
      data |-> << >> ]

\* emit: one more entry in the log of the transaction's receipt; the log is
\* kept while the event watcher is attached
emit(e) == events' = IF calc.fn = "watchEvents" THEN events (+) SetToBag({ e }) ELSE events

\* the contract after deployment
Deployed ==
    /\ now = Genesis
    /\ huntCounter = 0
    /\ hunts = [h \in HuntIds |-> EmptyHunt]
    /\ claims = [h \in HuntIds |-> EmptyClaim]
    /\ contributions = [h \in HuntIds |-> [a \in Addresses |-> 0]]
    /\ hasPurchasedHint = [h \in HuntIds |-> [a \in Addresses |-> FALSE]]
    /\ totalContributions = [h \in HuntIds |-> 0]
    /\ balance = 0
    /\ received = [a \in Addresses \cup {ZeroAddress} |-> 0]
    /\ events = EmptyBag

\* no off-chain computation at hand
Idle == [ fn |-> "idle", args |-> << >>, out |-> << >> ]

\* the event watcher of the deployment is listening
Watching == [ fn |-> "watchEvents", args |-> << >>, out |-> << >> ]

(***************************************************************************)
(* The web client.  null is modelled per field by a value of the field's   *)
(* type that no loaded value equals.                                       *)
(***************************************************************************)
NoHuntData == [ huntId |-> -1, secret |-> 0, target |-> <<0, 0>> ]
NoLocation == << -1, -1 >>
NoInputs == << ZeroAddress, NoHuntData, NoLocation >>
\* state.proof with, beside it, the inputs it was generated from
NoProof == [ proof |-> BogusProof, inputs |-> NoInputs ]

\* the page after loading: the state object of the script, both controls
\* disabled, nothing pending, nothing sent
InitialApp ==
    [ address |-> ZeroAddress, huntData |-> NoHuntData, location |-> NoLocation,
      proof |-> NoProof, generateDisabled |-> TRUE, submitDisabled |-> TRUE,
      proving |-> {}, submitting |-> FALSE, sent |-> << -1, NoProof >> ]

Init ==
    /\ Deployed
    /\ calc = Idle
    /\ app = InitialApp

(***************************************************************************)
(* Views.                                                                  *)
(***************************************************************************)
\* variant: the pot forgets what was withdrawn
getPotBalance_IgnoresWithdrawn(h) == hunts[h].initialPrize + totalContributions[h]

getPotBalance(h) ==
    LET totalPot == hunts[h].initialPrize + totalContributions[h]
        withdrawn == claims[h].totalWithdrawn
    IN  IF totalPot > withdrawn THEN totalPot - withdrawn ELSE 0

\* getHunt: the stored hunt with the current pot as its prize
getHunt(h) ==
    [ hider |-> hunts[h].hider, locationCommitment |-> hunts[h].locationCommitment,
      prize |-> getPotBalance(h), claimableAfter |-> hunts[h].claimableAfter,
      expiresAt |-> hunts[h].expiresAt, hintPrice |-> hunts[h].hintPrice,
      status |-> hunts[h].status ]

\* canWithdraw: a view; msg.sender is not read
canWithdraw(sender, h) ==
    IF hunts[h].status # "Claimed" THEN FALSE
    ELSE IF claims[h].claimer = ZeroAddress THEN FALSE
    ELSE IF getPotBalance(h) = 0 THEN FALSE
    ELSE IF claims[h].lastWithdrawal = 0 THEN TRUE
    ELSE now >= claims[h].lastWithdrawal + WITHDRAWAL_INTERVAL

\* IVerifier.verifyProof: true exactly for a proof the circuit yields for
\* that public signal
verifyProof(proof, pubSignal) == proof \in ValidProofs /\ proof.signal = pubSignal

(***************************************************************************)
(* The steps outside the contract.                                         *)
(***************************************************************************)
\* a block with a later timestamp
Advance(t) ==
    /\ t \in TimePoints
    /\ t > now
    /\ now' = t
    /\ UNCHANGED << ledger, events, calc, app >>

(***************************************************************************)
(* createHunt                                                              *)
(***************************************************************************)
\* the createHunt calls made:
\* <<msg.sender, _locationCommitment, _lockoutPeriod, _duration, _hintPrice, msg.value>>
Hide1 == computeLocationCommitment(0, 0, RADIUS_SQUARED)
Hide2 == computeLocationCommitment(RADIUS_SCALED, 0, RADIUS_SQUARED)
CreateHuntCalls ==
    { <<1, Hide1, 0, DAY, 1, MaxValue>>,
      <<2, Hide2, DAY, 2 * DAY, 1, MaxValue + 1>>,
      <<1, Hide1, 0, DAY, 1, 0>>,
      <<1, Hide1, DAY, DAY, 1, MaxValue>>,
      <<2, Hide2, 0, MAX_HUNT_DURATION + 1, 1, MaxValue>> }
\* the msg.value of the purchaseHint calls made
Payments == { 0, MaxValue }
Purchases == Cardinality({ x \in HuntIds \X Addresses : hasPurchasedHint[x[1]][x[2]] })

\* variant: the duration has no maximum
createHuntResult_NoMaxDuration(lockoutPeriod, duration, value) ==
    IF ~(value > 0) THEN "Must deposit prize"
    ELSE IF ~(lockoutPeriod >= MIN_HIDER_LOCKOUT) THEN "Lockout too short"
    ELSE IF ~(duration > lockoutPeriod) THEN "Duration must exceed lockout"
    ELSE "ok"

createHuntResult(lockoutPeriod, duration, value) ==
    IF ~(value > 0) THEN "Must deposit prize"
    ELSE IF ~(lockoutPeriod >= MIN_HIDER_LOCKOUT) THEN "Lockout too short"
    ELSE IF ~(duration <= MAX_HUNT_DURATION) THEN "Duration too long"
    ELSE IF ~(duration > lockoutPeriod) THEN "Duration must exceed lockout"
    ELSE "ok"

\* variant: the expiry is counted from the lockout instead of the duration
NewHunt_ExpiresAtUnlock(sender, locationCommitment, lockoutPeriod, duration, hintPrice, value) ==
    [ hider |-> sender, locationCommitment |-> locationCommitment, initialPrize |-> value,
      createdAt |-> now, claimableAfter |-> now + lockoutPeriod,
      expiresAt |-> now + lockoutPeriod, hintPrice |-> hintPrice, status |-> "Active" ]

NewHunt(sender, locationCommitment, lockoutPeriod, duration, hintPrice, value) ==
    [ hider |-> sender, locationCommitment |-> locationCommitment, initialPrize |-> value,
      createdAt |-> now, claimableAfter |-> now + lockoutPeriod,
      expiresAt |-> now + duration, hintPrice |-> hintPrice, status |-> "Active" ]

\* variant: every hunt is stored under the first id
createHunt_ReusesFirstId(sender, locationCommitment, lockoutPeriod, duration, hintPrice, value) ==
    /\ huntCounter \in HuntIds
    /\ IF createHuntResult(lockoutPeriod, duration, value) = "ok"
       THEN /\ hunts' = [hunts EXCEPT ![0] =
                            NewHunt(sender, locationCommitment, lockoutPeriod,
                                    duration, hintPrice, value)]
            /\ huntCounter' = huntCounter + 1
            /\ balance' = balance + value
            /\ emit(HuntCreated(0, sender, locationCommitment, value, now + lockoutPeriod))
            /\ UNCHANGED << calc, app, now, claims, contributions, hasPurchasedHint,
                            totalContributions, received >>
       ELSE UNCHANGED vars

createHunt(sender, locationCommitment, lockoutPeriod, duration, hintPrice, value) ==
    /\ huntCounter \in HuntIds
    /\ IF createHuntResult(lockoutPeriod, duration, value) = "ok"
       THEN /\ hunts' = [hunts EXCEPT ![huntCounter] =
                            NewHunt(sender, locationCommitment, lockoutPeriod,
                                    duration, hintPrice, value)]
            /\ huntCounter' = huntCounter + 1
            /\ balance' = balance + value
            /\ emit(HuntCreated(huntCounter, sender, locationCommitment, value, now + lockoutPeriod))
            /\ UNCHANGED << calc, app, now, claims, contributions, hasPurchasedHint,
                            totalContributions, received >>
       ELSE UNCHANGED vars

(***************************************************************************)
(* purchaseHint                                                            *)
(***************************************************************************)
\* variant: an account may purchase again
purchaseHintResult_NoDuplicateCheck(sender, h, value) ==
    IF ~(hunts[h].status = "Active") THEN "Hunt not active"
    ELSE IF ~(value >= hunts[h].hintPrice) THEN "Insufficient payment"
    ELSE "ok"

\* variant: the status of the hunt is not looked at
purchaseHintResult_AnyStatus(sender, h, value) ==
    IF ~(value >= hunts[h].hintPrice) THEN "Insufficient payment"
    ELSE IF hasPurchasedHint[h][sender] THEN "Already purchased"
    ELSE "ok"

purchaseHintResult(sender, h, value) ==
    IF ~(hunts[h].status = "Active") THEN "Hunt not active"
    ELSE IF ~(value >= hunts[h].hintPrice) THEN "Insufficient payment"
    ELSE IF hasPurchasedHint[h][sender] THEN "Already purchased"
    ELSE "ok"

\* variant: a purchase is added to the total of every hunt
purchaseHint_SharedTotal(sender, h, value) ==
    /\ Purchases < MaxPurchases
    /\ IF purchaseHintResult(sender, h, value) = "ok"
       THEN /\ contributions' = [contributions EXCEPT ![h][sender] = @ + value]
            /\ totalContributions' = [x \in HuntIds |-> totalContributions[x] + value]
            /\ hasPurchasedHint' = [hasPurchasedHint EXCEPT ![h][sender] = TRUE]
            /\ balance' = balance + value
            /\ emit(HintPurchased(h, sender, value))
            /\ UNCHANGED << calc, app, now, huntCounter, hunts, claims, received >>
       ELSE UNCHANGED vars

\* variant: the total grows by the hint price, whatever was paid
purchaseHint_TotalByPrice(sender, h, value) ==
    /\ Purchases < MaxPurchases
    /\ IF purchaseHintResult(sender, h, value) = "ok"
       THEN /\ contributions' = [contributions EXCEPT ![h][sender] = @ + value]
            /\ totalContributions' = [totalContributions EXCEPT ![h] = @ + hunts[h].hintPrice]
            /\ hasPurchasedHint' = [hasPurchasedHint EXCEPT ![h][sender] = TRUE]
            /\ balance' = balance + value
            /\ emit(HintPurchased(h, sender, value))
            /\ UNCHANGED << calc, app, now, huntCounter, hunts, claims, received >>
       ELSE UNCHANGED vars

purchaseHint(sender, h, value) ==
    /\ Purchases < MaxPurchases
    /\ IF purchaseHintResult(sender, h, value) = "ok"
       THEN /\ contributions' = [contributions EXCEPT ![h][sender] = @ + value]
            /\ totalContributions' = [totalContributions EXCEPT ![h] = @ + value]
            /\ hasPurchasedHint' = [hasPurchasedHint EXCEPT ![h][sender] = TRUE]
            /\ balance' = balance + value
            /\ emit(HintPurchased(h, sender, value))
            /\ UNCHANGED << calc, app, now, huntCounter, hunts, claims, received >>
       ELSE UNCHANGED vars

(***************************************************************************)
(* claimTreasure                                                           *)
(***************************************************************************)
\* variant: neither the status nor the stored claim is looked at
claimTreasureResult_NoDuplicateCheck(sender, h, proof, claimCommitment) ==
    IF ~(now >= hunts[h].claimableAfter) THEN "Still in lockout period"
    ELSE IF ~(now < hunts[h].expiresAt) THEN "Hunt expired"
    ELSE IF ~verifyProof(proof, claimCommitment) THEN "Invalid proof"
    ELSE "ok"

\* variant: the lockout ends one instant late
claimTreasureResult_LateLockout(sender, h, proof, claimCommitment) ==
    IF ~(hunts[h].status = "Active") THEN "Hunt not active"
    ELSE IF ~(now > hunts[h].claimableAfter) THEN "Still in lockout period"
    ELSE IF ~(now < hunts[h].expiresAt) THEN "Hunt expired"
    ELSE IF ~(claims[h].claimer = ZeroAddress) THEN "Already claimed"
    ELSE IF ~verifyProof(proof, claimCommitment) THEN "Invalid proof"
    ELSE "ok"

claimTreasureResult(sender, h, proof, claimCommitment) ==
    IF ~(hunts[h].status = "Active") THEN "Hunt not active"
    ELSE IF ~(now >= hunts[h].claimableAfter) THEN "Still in lockout period"
    ELSE IF ~(now < hunts[h].expiresAt) THEN "Hunt expired"
    ELSE IF ~(claims[h].claimer = ZeroAddress) THEN "Already claimed"
    ELSE IF ~verifyProof(proof, claimCommitment) THEN "Invalid proof"
    ELSE "ok"

\* variant: the claim starts as if a withdrawal had just been made
NewClaim_StartsWithdrawn(sender) ==
    [ claimer |-> sender, claimTime |-> now, lastWithdrawal |-> now, totalWithdrawn |-> 0 ]

NewClaim(sender) ==
    [ claimer |-> sender, claimTime |-> now, lastWithdrawal |-> 0, totalWithdrawn |-> 0 ]

\* variant: the claim is written before the proof is verified
claimTreasure_WritesBeforeVerify(sender, h, proof, claimCommitment) ==
    IF claimTreasureResult(sender, h, proof, claimCommitment) = "ok"
    THEN /\ claims' = [claims EXCEPT ![h] = NewClaim(sender)]
         /\ hunts' = [hunts EXCEPT ![h].status = "Claimed"]
         /\ emit(ClaimSubmitted(h, sender))
         /\ UNCHANGED << calc, app, now, huntCounter, contributions, hasPurchasedHint,
                         totalContributions, balance, received >>
    ELSE IF claimTreasureResult(sender, h, proof, claimCommitment) = "Invalid proof"
    THEN /\ claims' = [claims EXCEPT ![h] = NewClaim(sender)]
         /\ UNCHANGED << calc, app, events, now, huntCounter, hunts, contributions, hasPurchasedHint,
                         totalContributions, balance, received >>
    ELSE UNCHANGED vars

\* variant: the claim is stored and the status is left as it was
claimTreasure_LeavesStatus(sender, h, proof, claimCommitment) ==
    IF claimTreasureResult(sender, h, proof, claimCommitment) = "ok"
    THEN /\ claims' = [claims EXCEPT ![h] = NewClaim(sender)]
         /\ emit(ClaimSubmitted(h, sender))
         /\ UNCHANGED << calc, app, now, huntCounter, hunts, contributions, hasPurchasedHint,
                         totalContributions, balance, received >>
    ELSE UNCHANGED vars

claimTreasure(sender, h, proof, claimCommitment) ==
    IF claimTreasureResult(sender, h, proof, claimCommitment) = "ok"
    THEN /\ claims' = [claims EXCEPT ![h] = NewClaim(sender)]
         /\ hunts' = [hunts EXCEPT ![h].status = "Claimed"]
         /\ emit(ClaimSubmitted(h, sender))
         /\ UNCHANGED << calc, app, now, huntCounter, contributions, hasPurchasedHint,
                         totalContributions, balance, received >>
    ELSE UNCHANGED vars

(***************************************************************************)
(* withdraw                                                                *)
(***************************************************************************)
withdrawAmount(bal) ==
    LET amount == (bal * WITHDRAWAL_PERCENT) \div 100
    IN  IF amount = 0 THEN bal ELSE amount

\* variant: the interval is counted from the claim, not the last withdrawal
withdrawalDue_SinceClaim(h) ==
    \/ claims[h].lastWithdrawal = 0
    \/ now >= claims[h].claimTime + WITHDRAWAL_INTERVAL

withdrawalDue(h) ==
    \/ claims[h].lastWithdrawal = 0
    \/ now >= claims[h].lastWithdrawal + WITHDRAWAL_INTERVAL

\* variant: any caller may withdraw
withdrawResult_AnyCaller(sender, h) ==
    IF ~(hunts[h].status = "Claimed") THEN "Not claimed"
    ELSE IF ~withdrawalDue(h) THEN "Withdrawal too soon"
    ELSE IF ~(getPotBalance(h) > 0) THEN "No funds remaining"
    ELSE IF balance < withdrawAmount(getPotBalance(h)) THEN "transfer failed"
    ELSE "ok"

withdrawResult(sender, h) ==
    IF ~(hunts[h].status = "Claimed") THEN "Not claimed"
    ELSE IF ~(claims[h].claimer = sender) THEN "Not the claimer"
    ELSE IF ~withdrawalDue(h) THEN "Withdrawal too soon"
    ELSE IF ~(getPotBalance(h) > 0) THEN "No funds remaining"
    ELSE IF balance < withdrawAmount(getPotBalance(h)) THEN "transfer failed"
    ELSE "ok"

\* variant: the time of the withdrawal is not recorded
withdraw_KeepsLastWithdrawal(sender, h) ==
    IF withdrawResult(sender, h) = "ok"
    THEN LET amount == withdrawAmount(getPotBalance(h))
         IN  /\ claims' = [claims EXCEPT ![h].totalWithdrawn = @ + amount]
             /\ balance' = balance - amount
             /\ received' = [received EXCEPT ![sender] = @ + amount]
             /\ emit(Withdrawal(h, sender, amount))
             /\ UNCHANGED << calc, app, now, huntCounter, hunts, contributions, hasPurchasedHint,
                             totalContributions >>
    ELSE UNCHANGED vars

\* variant: the Withdrawal event carries the pot instead of the amount paid
withdraw_EmitsPot(sender, h) ==
    IF withdrawResult(sender, h) = "ok"
    THEN LET amount == withdrawAmount(getPotBalance(h))
         IN  /\ claims' = [claims EXCEPT ![h].lastWithdrawal = now,
                                         ![h].totalWithdrawn = @ + amount]
             /\ balance' = balance - amount
             /\ received' = [received EXCEPT ![sender] = @ + amount]
             /\ emit(Withdrawal(h, sender, getPotBalance(h)))
             /\ UNCHANGED << calc, app, now, huntCounter, hunts, contributions, hasPurchasedHint,
                             totalContributions >>
    ELSE UNCHANGED vars

withdraw(sender, h) ==
    IF withdrawResult(sender, h) = "ok"
    THEN LET amount == withdrawAmount(getPotBalance(h))
         IN  /\ claims' = [claims EXCEPT ![h].lastWithdrawal = now,
                                         ![h].totalWithdrawn = @ + amount]
             /\ balance' = balance - amount
             /\ received' = [received EXCEPT ![sender] = @ + amount]
             /\ emit(Withdrawal(h, sender, amount))
             /\ UNCHANGED << calc, app, now, huntCounter, hunts, contributions, hasPurchasedHint,
                             totalContributions >>
    ELSE UNCHANGED vars

(***************************************************************************)
(* expireHunt                                                              *)
(***************************************************************************)
\* variant: the deadline is not looked at
expireHuntResult_NoDeadline(sender, h) ==
    IF ~(hunts[h].status = "Active") THEN "Not active"
    ELSE IF balance < getPotBalance(h) THEN "transfer failed"
    ELSE "ok"

expireHuntResult(sender, h) ==
    IF ~(hunts[h].status = "Active") THEN "Not active"
    ELSE IF ~(now >= hunts[h].expiresAt) THEN "Not expired yet"
    ELSE IF balance < getPotBalance(h) THEN "transfer failed"
    ELSE "ok"

expireHunt(sender, h) ==
    IF expireHuntResult(sender, h) = "ok"
    THEN LET bal == getPotBalance(h)
         IN  /\ hunts' = [hunts EXCEPT ![h].status = "Expired"]
             /\ balance' = balance - bal
             /\ received' = [received EXCEPT ![hunts[h].hider] = @ + bal]
             /\ emit(HuntExpired(h))
             /\ UNCHANGED << calc, app, now, huntCounter, claims, contributions, hasPurchasedHint,
                             totalContributions >>
    ELSE UNCHANGED vars

(***************************************************************************)
(* The system.                                                             *)
(***************************************************************************)
DoAdvance == \E t \in TimePoints : Advance(t)

Signal1 == computeClaimCommitment(Hide1, computeSecretHash(7), 1)

\* the claimTreasure calls made, <<proof, _claimCommitment>>: every valid
\* proof with its signal, a valid proof with another signal, and no proof
ClaimCalls ==
    { <<p, p.signal>> : p \in ValidProofs }
        \cup { <<ProofFor(Signal1), WrongSignal>>, <<BogusProof, Signal1>> }

DoCreateHunt ==
    \E c \in CreateHuntCalls : createHunt(c[1], c[2], c[3], c[4], c[5], c[6])

DoPurchaseHint == \E sender \in Addresses, h \in HuntIds, v \in Payments : purchaseHint(sender, h, v)

DoClaimTreasure ==
    \E sender \in Addresses, h \in HuntIds, c \in ClaimCalls :
        claimTreasure(sender, h, c[1], c[2])

DoWithdraw == \E sender \in Addresses, h \in HuntIds : withdraw(sender, h)

DoExpireHunt == \E sender \in Addresses, h \in HuntIds : expireHunt(sender, h)

Next ==
    \/ DoAdvance
    \/ DoCreateHunt
    \/ DoPurchaseHint
    \/ DoClaimTreasure
    \/ DoWithdraw
    \/ DoExpireHunt

Spec == Init /\ [][Next]_vars

(***************************************************************************)
(* The off-chain computations: the distance gates and the commitment       *)
(* functions, each applied to inputs drawn at the start.                   *)
(***************************************************************************)
\* scaled coordinates on both sides of a target and of the radius
Coordinates == { -80, -60, 0, 60, 80, 99, 100, 101 }
DistanceInputs == { <<gps, target>> : gps \in Coordinates \X Coordinates, target \in Points }

\* generateSecret: 32 random bytes, a range that is wider than the field
GeneratedSecrets == { 7, FieldModulus - 1, FieldModulus, FieldModulus + 7, 2 * FieldModulus + 7 }
SecretInputs == GeneratedSecrets \X GeneratedSecrets

\* locations east and west of the meridian, and their residues
Locations ==
    { <<lat, lon, RADIUS_SQUARED>> : lat \in { 0, 60 }, lon \in { -60, FieldModulus - 60, 60 } }
LocationInputs == Locations \X Locations

\* claimer identities are addresses, 160 bits and so below the field modulus
Identities == Addresses \cup { ZeroAddress, FieldModulus - 1 }
ClaimInputs ==
    { <<computeLocationCommitment(t[1], t[2], RADIUS_SQUARED), computeSecretHash(s), a, b>> :
        t \in Points, s \in Secrets, a \in Identities, b \in Identities }

\* proof inputs: a generated secret, a finder on or near the target, a claimer
ProofInputs ==
    { <<s, <<t[1] + d, t[2]>>, t, a>> :
        s \in GeneratedSecrets, d \in { 0, 50 }, t \in Locations, a \in Identities }

CalcInit ==
    /\ Deployed
    /\ app = InitialApp
    /\ calc \in { [ fn |-> "DistanceCheck", args |-> in, out |-> << >> ] : in \in DistanceInputs }
          \cup { [ fn |-> "computeSecretHash", args |-> in, out |-> << >> ] : in \in SecretInputs }
          \cup { [ fn |-> "computeLocationCommitment", args |-> in, out |-> << >> ] :
                   in \in LocationInputs }
          \cup { [ fn |-> "computeClaimCommitment", args |-> in, out |-> << >> ] :
                   in \in ClaimInputs }
          \cup { [ fn |-> "TreasureClaim", args |-> in, out |-> << >> ] : in \in ProofInputs }

\* the circuit's constraint and the two gates on one pair of coordinates
ApplyDistance ==
    /\ calc.fn = "DistanceCheck"
    /\ calc.out = << >>
    /\ LET gps == calc.args[1]
           target == calc.args[2]
       IN  calc' = [calc EXCEPT !.out =
                      << DistanceCheck(gps[1], gps[2], target[1], target[2], RADIUS_SQUARED) = 1,
                         isWithinRadius(gps[1], gps[2], target[1], target[2]),
                         checkDistance(gps[1], gps[2], target[1], target[2]) >>]
    /\ UNCHANGED << now, ledger, events, app >>

\* the secret hash of two generated secrets
ApplySecretHash ==
    /\ calc.fn = "computeSecretHash"
    /\ calc.out = << >>
    /\ calc' = [calc EXCEPT !.out =
                  << computeSecretHash(calc.args[1]), computeSecretHash(calc.args[2]) >>]
    /\ UNCHANGED << now, ledger, events, app >>

\* the location commitment of two locations
ApplyLocationCommitment ==
    /\ calc.fn = "computeLocationCommitment"
    /\ calc.out = << >>
    /\ LET a == calc.args[1]
           b == calc.args[2]
       IN  calc' = [calc EXCEPT !.out =
                      << computeLocationCommitment(a[1], a[2], a[3]),
                         computeLocationCommitment(b[1], b[2], b[3]) >>]
    /\ UNCHANGED << now, ledger, events, app >>

\* the claim commitment of one location and secret for two identities
ApplyClaimCommitment ==
    /\ calc.fn = "computeClaimCommitment"
    /\ calc.out = << >>
    /\ calc' = [calc EXCEPT !.out =
                  << computeClaimCommitment(calc.args[1], calc.args[2], calc.args[3]),
                     computeClaimCommitment(calc.args[1], calc.args[2], calc.args[4]) >>]
    /\ UNCHANGED << now, ledger, events, app >>

\* the expected commitment computed off-chain, and the circuit on the same
\* secret, target, radius and claimer: its public output and whether the
\* witness satisfies it
ApplyTreasureClaim ==
    /\ calc.fn = "TreasureClaim"
    /\ calc.out = << >>
    /\ LET secret == calc.args[1]
           gps == calc.args[2]
           target == calc.args[3]
           claimer == calc.args[4]
           c == TreasureClaim(secret, gps[1], gps[2], target[1], target[2], target[3], claimer)
       IN  calc' = [calc EXCEPT !.out =
                      << computeClaimCommitment(
                             computeLocationCommitment(target[1], target[2], target[3]),
                             computeSecretHash(secret), claimer),
                         c.claimCommitment,
                         c.satisfied >>]
    /\ UNCHANGED << now, ledger, events, app >>

CalcNext ==
    \/ ApplyDistance
    \/ ApplySecretHash
    \/ ApplyLocationCommitment
    \/ ApplyClaimCommitment
    \/ ApplyTreasureClaim

CalcSpec == CalcInit /\ [][CalcNext]_vars

(***************************************************************************)
(* The contract with the event watcher attached from deployment on.        *)
(***************************************************************************)
LogInit ==
    /\ Deployed
    /\ calc = Watching
    /\ app = InitialApp

LogSpec == LogInit /\ [][Next]_vars

(***************************************************************************)
(* The web client: user actions on the page, and the completions of the    *)
(* work it awaits (proof generation, the claim transaction).               *)
(***************************************************************************)
MaxProving == 2

\* what a QR code or the manual form loads, and where the finder can be
HuntDatas ==
    { [ huntId |-> 0, secret |-> 7, target |-> <<0, 0>> ],
      [ huntId |-> 1, secret |-> 7, target |-> <<RADIUS_SCALED, 0>> ] }
GpsFixes == Points

\* checkProgress: both controls are set from the state object
checkProgress(a) ==
    [ a EXCEPT !.generateDisabled =
                   ~(a.address # ZeroAddress /\ a.huntData # NoHuntData
                        /\ a.location # NoLocation),
               !.submitDisabled = ~(a.proof # NoProof) ]

\* a step of the page: the chain and the other off-chain work stay as they are
Page(a) ==
    /\ app' = a
    /\ UNCHANGED << now, ledger, events, calc >>

\* connectWallet: the address is stored; the controls are not looked at
connectWallet(address) ==
    /\ app.address = ZeroAddress
    /\ Page([app EXCEPT !.address = address])

loadHuntData(huntData) ==
    /\ huntData \in HuntDatas
    /\ Page(checkProgress([app EXCEPT !.huntData = huntData]))

clearHuntData ==
    /\ app.huntData # NoHuntData
    /\ Page(checkProgress([app EXCEPT !.huntData = NoHuntData]))

\* getLocation, when the position arrives
getLocation(fix) ==
    /\ app.location = NoLocation
    /\ Page(checkProgress([app EXCEPT !.location = fix]))

loadManualGPS(fix) ==
    /\ fix \in GpsFixes
    /\ Page(checkProgress([app EXCEPT !.location = fix]))

clearGPS ==
    /\ app.location # NoLocation
    /\ Page(checkProgress([app EXCEPT !.location = NoLocation]))

\* generateProof up to its await: the control is disabled and the inputs are
\* read from the state object; reading a null field throws into the catch,
\* which enables the control again
generateProof ==
    /\ ~app.generateDisabled
    /\ Cardinality(app.proving) < MaxProving
    /\ IF app.address = ZeroAddress \/ app.huntData = NoHuntData \/ app.location = NoLocation
       THEN Page([app EXCEPT !.generateDisabled = FALSE])
       ELSE Page([app EXCEPT !.generateDisabled = TRUE,
                             !.proving = @ \cup { <<app.address, app.huntData, app.location>> }])

\* what fullProve yields for the inputs read at the click
ProofOf(in) == fullProve(in[2].secret, in[3], in[2].target, RADIUS_SQUARED, in[1])

\* fullProve resolves: the proof is stored and the controls are set
proofGenerated(in) ==
    /\ in \in app.proving
    /\ ProofOf(in) # BogusProof
    /\ Page(checkProgress([app EXCEPT !.proof = [ proof |-> ProofOf(in), inputs |-> in ],
                                      !.proving = @ \ { in }]))

\* fullProve rejects (the witness breaks a constraint): the catch enables
\* the generate control
proofFailed(in) ==
    /\ in \in app.proving
    /\ ProofOf(in) = BogusProof
    /\ Page([app EXCEPT !.generateDisabled = FALSE, !.proving = @ \ { in }])

\* submitClaim up to its first await
submitClaim ==
    /\ ~app.submitDisabled
    /\ ~app.submitting
    /\ IF app.address = ZeroAddress \/ app.proof = NoProof \/ app.huntData = NoHuntData
       THEN Page(app)
       ELSE Page([app EXCEPT !.submitDisabled = TRUE, !.submitting = TRUE])

\* submitClaim after its awaits: hunt id and proof are read from the state
\* object and sent; the transaction is confirmed, or it fails and the catch
\* enables the submit control
claimSent(confirmed) ==
    /\ app.submitting
    /\ IF app.huntData = NoHuntData
       THEN Page([app EXCEPT !.submitting = FALSE, !.submitDisabled = FALSE])
       ELSE Page([app EXCEPT !.submitting = FALSE,
                             !.sent = << app.huntData.huntId, app.proof >>,
                             !.submitDisabled = IF confirmed THEN @ ELSE FALSE])

\* accountsChanged / chainChanged: the page is loaded anew
reload ==
    /\ app # InitialApp
    /\ Page(InitialApp)

DoConnectWallet == \E a \in Addresses : connectWallet(a)
DoLoadHuntData == \E d \in HuntDatas : loadHuntData(d)
DoGetLocation == \E fix \in GpsFixes : getLocation(fix)
DoLoadManualGPS == \E fix \in GpsFixes : loadManualGPS(fix)
DoProofGenerated == \E in \in app.proving : proofGenerated(in)
DoProofFailed == \E in \in app.proving : proofFailed(in)
DoClaimSent == \E confirmed \in BOOLEAN : claimSent(confirmed)

WebNext ==
    \/ DoConnectWallet
    \/ DoLoadHuntData
    \/ clearHuntData
    \/ DoGetLocation
    \/ DoLoadManualGPS
    \/ clearGPS
    \/ generateProof
    \/ DoProofGenerated
    \/ DoProofFailed
    \/ submitClaim
    \/ DoClaimSent
    \/ reload

WebSpec == Init /\ [][WebNext]_vars

(***************************************************************************)
(* Helpers of the properties.                                              *)
(***************************************************************************)
Registered(h) == h < huntCounter

RECURSIVE SumOver(_, _)
SumOver(f, S) ==
    IF S = {} THEN 0
    ELSE LET x == CHOOSE y \in S : TRUE IN f[x] + SumOver(f, S \ {x})

\* the step takes hunt h from Active to Claimed / to Expired
BecomesClaimed(h) == hunts[h].status = "Active" /\ hunts'[h].status = "Claimed"
BecomesExpired(h) == hunts[h].status = "Active" /\ hunts'[h].status = "Expired"
\* the step is a successful withdraw on h
Withdraws(h) == claims'[h].totalWithdrawn # claims[h].totalWithdrawn

(***************************************************************************)
(* C1: anti-replay.  A claimTreasure call is accepted only from the        *)
(* identity that was bound into the claim commitment it carries: a proof   *)
(* and commitment built with claimerAddress = A are rejected when B        *)
(* submits them.                                                           *)
(***************************************************************************)
C1_ClaimerIsBoundIdentity ==
    [][ \A sender \in Addresses, h \in HuntIds, c \in ClaimCalls :
            (claimTreasure(sender, h, c[1], c[2]) /\ BecomesClaimed(h))
                => ClaimerOf(c[2]) = sender ]_vars

(***************************************************************************)
(* C2: location binding.  A claimTreasure call on hunt h is accepted only  *)
(* with a claim commitment derived from h's stored locationCommitment.     *)
(***************************************************************************)
C2_CommitmentIsForHuntLocation ==
    [][ \A sender \in Addresses, h \in HuntIds, c \in ClaimCalls :
            (claimTreasure(sender, h, c[1], c[2]) /\ BecomesClaimed(h))
                => LocationOf(c[2]) = hunts[h].locationCommitment ]_vars

(***************************************************************************)
(* C3: single claim.  Once a claim is stored for hunt h, every             *)
(* claimTreasure call on h reverts, whoever calls with whatever proof, and *)
(* no step changes the stored claimer or claimTime.                        *)
(***************************************************************************)
C3_SingleClaim ==
    /\ [](\A h \in HuntIds : claims[h].claimer # ZeroAddress =>
            \A sender \in Addresses, c \in ClaimCalls :
                claimTreasureResult(sender, h, c[1], c[2]) # "ok")
    /\ [][ \A h \in HuntIds : claims[h].claimer # ZeroAddress =>
            /\ claims'[h].claimer = claims[h].claimer
            /\ claims'[h].claimTime = claims[h].claimTime ]_vars

\* a claimed hunt, later than its claim, while its claim window is still open
C3_Witness ==
    \E h \in HuntIds :
        /\ hunts[h].status = "Claimed"
        /\ claims[h].claimer = 1
        /\ now > claims[h].claimTime
        /\ now < hunts[h].expiresAt

(***************************************************************************)
(* C4: pot conservation.  For every hunt id, getPotBalance is the initial  *)
(* prize plus the sum of the contributions to the id minus totalWithdrawn, *)
(* and totalWithdrawn never exceeds prize plus total contributions.        *)
(***************************************************************************)
C4_PotConservation ==
    \A h \in HuntIds :
        /\ getPotBalance(h) =
              hunts[h].initialPrize + SumOver(contributions[h], Addresses)
                  - claims[h].totalWithdrawn
        /\ getPotBalance(h) >= 0
        /\ claims[h].totalWithdrawn <= hunts[h].initialPrize + totalContributions[h]

\* a hunt with a contribution, part of whose pot has been withdrawn
C4_Witness ==
    \E h \in HuntIds :
        /\ Registered(h)
        /\ totalContributions[h] > 0
        /\ claims[h].totalWithdrawn > 0
        /\ getPotBalance(h) > 0

(***************************************************************************)
(* C5: the ether the contract holds covers the pots of all registered      *)
(* hunts that are Active or Claimed.                                       *)
(***************************************************************************)
OpenPots ==
    [h \in HuntIds |->
        IF Registered(h) /\ hunts[h].status \in {"Active", "Claimed"}
        THEN getPotBalance(h) ELSE 0]

C5_LedgerCoversPots == balance >= SumOver(OpenPots, HuntIds)

C7_ExpiryExclusivity ==
    /\ [](\A h \in HuntIds, sender \in Addresses :
            /\ expireHuntResult(sender, h) = "ok" =>
                  (now >= hunts[h].expiresAt /\ hunts[h].status = "Active")
            /\ \A c \in ClaimCalls :
                  /\ now >= hunts[h].expiresAt =>
                        claimTreasureResult(sender, h, c[1], c[2]) # "ok"
                  /\ \A other \in Addresses :
                        ~ /\ claimTreasureResult(sender, h, c[1], c[2]) = "ok"
                          /\ expireHuntResult(other, h) = "ok")
    /\ [][ \A h \in HuntIds :
            /\ hunts'[h].status = "Expired" /\ hunts[h].status # "Expired" =>
                  (hunts[h].status = "Active" /\ now >= hunts[h].expiresAt)
            /\ BecomesClaimed(h) => now < hunts[h].expiresAt ]_vars

\* a registered hunt has expired and been refunded
C7_Witness ==
    \E h \in HuntIds :
        /\ Registered(h)
        /\ hunts[h].hider # ZeroAddress
        /\ hunts[h].status = "Expired"
        /\ received[hunts[h].hider] > 0

(***************************************************************************)
(* C8: the stored status of every hunt id changes only from Active (to     *)
(* Claimed or to Expired); Claimed and Expired are terminal.               *)
(***************************************************************************)
C8_StatusMonotone ==
    [][ \A h \in HuntIds : hunts'[h].status # hunts[h].status =>
            /\ hunts[h].status = "Active"
            /\ hunts'[h].status \in {"Claimed", "Expired"} ]_vars

(***************************************************************************)
(* C9: withdrawal cadence.  A successful withdraw records the current time *)
(* and, when it is not the first on its hunt, comes at least               *)
(* WITHDRAWAL_INTERVAL after the previous one; a withdraw call by the      *)
(* claimer sooner than that reverts with "Withdrawal too soon".            *)
(***************************************************************************)
C9_WithdrawalCadence ==
    /\ [](\A h \in HuntIds :
            (claims[h].totalWithdrawn > 0
                /\ now < claims[h].lastWithdrawal + WITHDRAWAL_INTERVAL) =>
            withdrawResult(claims[h].claimer, h) = "Withdrawal too soon")
    /\ [][ \A h \in HuntIds : Withdraws(h) =>
            /\ claims'[h].lastWithdrawal = now
            /\ claims[h].totalWithdrawn > 0 =>
                  now - claims[h].lastWithdrawal >= WITHDRAWAL_INTERVAL ]_vars

\* a second withdrawal, one interval after the first, has emptied a pot
C9_Witness ==
    \E h \in HuntIds :
        /\ hunts[h].status = "Claimed"
        /\ claims[h].totalWithdrawn = hunts[h].initialPrize + totalContributions[h]
        /\ claims[h].totalWithdrawn > 1
        /\ claims[h].lastWithdrawal >= claims[h].claimTime + WITHDRAWAL_INTERVAL

(***************************************************************************)
(* What a successful withdraw on h releases: floor(b * 50 / 100) of the    *)
(* pot balance b, or all of b when that floor is 0, paid to the claimer    *)
(* out of the contract's ether and taken off the pot.                      *)
(***************************************************************************)
ReleasesShare(h) ==
    LET b == getPotBalance(h)
        released == claims'[h].totalWithdrawn - claims[h].totalWithdrawn
    IN  /\ b > 0
        /\ released > 0
        /\ released <= b
        /\ IF b * WITHDRAWAL_PERCENT < 100
           THEN released = b
           ELSE /\ 100 * released <= b * WITHDRAWAL_PERCENT
                /\ b * WITHDRAWAL_PERCENT < 100 * (released + 1)
        /\ balance' = balance - released
        /\ received' = [received EXCEPT ![claims[h].claimer] = @ + released]
        /\ getPotBalance(h)' = b - released

WithdrawReleasesShare == [][ \A h \in HuntIds : Withdraws(h) => ReleasesShare(h) ]_vars

\* half of an odd pot has been released, rounded down
WithdrawReleasesShare_Reached ==
    \E h \in HuntIds :
        /\ hunts[h].status = "Claimed"
        /\ hunts[h].initialPrize + totalContributions[h] = 3
        /\ claims[h].totalWithdrawn = 1
        /\ received[claims[h].claimer] >= 1

(***************************************************************************)
(* C10: withdrawal amount.  A successful withdraw on a pot of balance      *)
(* b > 0 releases to the claimer exactly floor(b * 50 / 100), or all of b  *)
(* when that floor is 0: never more than b, never rounded up.  The first   *)
(* withdrawal is allowed immediately after the claim: while nothing has    *)
(* been withdrawn from a claimed hunt with a pot, the claimer's withdraw   *)
(* succeeds.                                                               *)
(***************************************************************************)
C10_WithdrawalAmount ==
    /\ [](\A h \in HuntIds :
            (hunts[h].status = "Claimed" /\ claims[h].totalWithdrawn = 0
                /\ getPotBalance(h) > 0) =>
            withdrawResult(claims[h].claimer, h) = "ok")
    /\ [][ \A h \in HuntIds : Withdraws(h) => ReleasesShare(h) ]_vars

(***************************************************************************)
(* C11: only the claimer withdraws.  withdraw(h) succeeds only on a        *)
(* Claimed hunt and for the caller stored as Claim(h).claimer; the call of *)
(* any other account, the hider included, reverts and changes nothing;     *)
(* what a withdrawal releases is received by the stored claimer alone.     *)
(***************************************************************************)
C11_OnlyClaimerWithdraws ==
    /\ [](\A h \in HuntIds, sender \in Addresses :
            /\ withdrawResult(sender, h) = "ok" =>
                  (hunts[h].status = "Claimed" /\ claims[h].claimer = sender)
            /\ (hunts[h].status = "Claimed" /\ sender # claims[h].claimer) =>
                  withdrawResult(sender, h) = "Not the claimer")
    /\ [][ \A h \in HuntIds :
            /\ \A sender \in Addresses :
                  (sender # claims[h].claimer /\ ledger' # ledger) => ~withdraw(sender, h)
            /\ Withdraws(h) =>
                  /\ hunts[h].status = "Claimed"
                  /\ claims[h].claimer \in Addresses
                  /\ \A a \in Addresses \cup {ZeroAddress} :
                        IF a = claims[h].claimer
                        THEN received'[a] = received[a] + claims'[h].totalWithdrawn
                                                - claims[h].totalWithdrawn
                        ELSE received'[a] = received[a] ]_vars

\* a claimer who is not the hider has been paid, the hider has not, and the
\* pot still holds funds a withdrawal is due on
C11_Witness ==
    \E h \in HuntIds :
        /\ hunts[h].status = "Claimed"
        /\ claims[h].claimer # hunts[h].hider
        /\ received[claims[h].claimer] > 0
        /\ received[hunts[h].hider] = 0
        /\ getPotBalance(h) > 0
        /\ withdrawalDue(h)

(***************************************************************************)
(* C12: minimum lockout.  A createHunt call whose lockout period is        *)
(* shorter than one day and whose other parameters are valid reverts with  *)
(* "Lockout too short" and creates no hunt.                                *)
(***************************************************************************)
C12_MinimumLockout ==
    [][ \A c \in CreateHuntCalls :
            ( /\ c[3] < DAY
              /\ c[6] > 0
              /\ c[4] > c[3]
              /\ c[4] <= MAX_HUNT_DURATION
              /\ createHunt(c[1], c[2], c[3], c[4], c[5], c[6]) )
            => /\ createHuntResult(c[3], c[4], c[6]) = "Lockout too short"
               /\ UNCHANGED vars ]_vars

C14_OnePurchasePerAccount ==
    /\ [](\A h \in HuntIds, c \in Addresses, v \in Payments :
            /\ hasPurchasedHint[h][c] =>
                  /\ purchaseHintResult(c, h, v) # "ok"
                  /\ (hunts[h].status = "Active" /\ v >= hunts[h].hintPrice) =>
                        purchaseHintResult(c, h, v) = "Already purchased"
            /\ (~hasPurchasedHint[h][c] /\ hunts[h].status = "Active"
                    /\ v >= hunts[h].hintPrice) =>
                  purchaseHintResult(c, h, v) = "ok")
    /\ [][ \A h \in HuntIds, c \in Addresses :
            /\ hasPurchasedHint[h][c] =>
                  /\ hasPurchasedHint'[h][c]
                  /\ contributions'[h][c] = contributions[h][c]
                  /\ \A v \in Payments : ledger' # ledger => ~purchaseHint(c, h, v)
            /\ hasPurchasedHint'[h][c] # hasPurchasedHint[h][c] =>
                  /\ totalContributions'[h] - totalContributions[h]
                        = contributions'[h][c] - contributions[h][c]
                  /\ \A h2 \in HuntIds, c2 \in Addresses : <<h2, c2>> # <<h, c>> =>
                        /\ contributions'[h2][c2] = contributions[h2][c2]
                        /\ hasPurchasedHint'[h2][c2] = hasPurchasedHint[h2][c2]
                  /\ \A h2 \in HuntIds \ {h} :
                        totalContributions'[h2] = totalContributions[h2] ]_vars

\* both accounts have purchased a hint of the same registered Active hunt
C14_Witness ==
    \E h \in HuntIds :
        /\ Registered(h)
        /\ hunts[h].status = "Active"
        /\ \A c \in Addresses : hasPurchasedHint[h][c] /\ contributions[h][c] > 0
        /\ totalContributions[h] = 2 * MaxValue

(***************************************************************************)
(* C15: hint purchases are accepted only on Active hunts and only with a   *)
(* payment of at least hintPrice; any other purchase reverts and changes   *)
(* nothing.  Once a hunt is Claimed its contributions never change and its *)
(* pot balance never grows.                                                *)
(***************************************************************************)
C15_PurchaseOnlyActiveAndPaid ==
    /\ [](\A h \in HuntIds, c \in Addresses, v \in Payments :
            /\ purchaseHintResult(c, h, v) = "ok" =>
                  (hunts[h].status = "Active" /\ v >= hunts[h].hintPrice)
            /\ hunts[h].status # "Active" =>
                  purchaseHintResult(c, h, v) = "Hunt not active"
            /\ (hunts[h].status = "Active" /\ v < hunts[h].hintPrice) =>
                  purchaseHintResult(c, h, v) = "Insufficient payment")
    /\ [][ \A h \in HuntIds :
            /\ totalContributions'[h] # totalContributions[h]
                  \/ contributions'[h] # contributions[h]
                  \/ hasPurchasedHint'[h] # hasPurchasedHint[h] =>
                  /\ hunts[h].status = "Active"
                  /\ \E c \in Addresses :
                        /\ contributions'[h][c] - contributions[h][c] >= hunts[h].hintPrice
                        /\ balance' - balance = contributions'[h][c] - contributions[h][c]
            /\ hunts[h].status = "Claimed" =>
                  /\ hunts'[h].status = "Claimed"
                  /\ contributions'[h] = contributions[h]
                  /\ totalContributions'[h] = totalContributions[h]
                  /\ getPotBalance(h)' <= getPotBalance(h) ]_vars

\* a Claimed hunt that received a contribution while it was Active and has
\* paid out part of its pot
C15_Witness ==
    \E h \in HuntIds :
        /\ hunts[h].status = "Claimed"
        /\ hunts[h].hintPrice > 0
        /\ totalContributions[h] > 0
        /\ claims[h].totalWithdrawn > 0

(***************************************************************************)
(* C16: expiry refund.  expireHunt is permissionless: whenever a           *)
(* registered hunt is Active and now >= expiresAt the call succeeds for    *)
(* every caller; it sets the status to Expired and pays the whole          *)
(* remaining balance, initial prize plus all contributions, to the         *)
(* creator of the hunt and nothing to anyone else.                         *)
(***************************************************************************)
C16_ExpiryRefund ==
    /\ [](\A h \in HuntIds, sender \in Addresses :
            (Registered(h) /\ hunts[h].status = "Active" /\ now >= hunts[h].expiresAt)
                => expireHuntResult(sender, h) = "ok")
    /\ [][ \A h \in HuntIds : (Registered(h) /\ BecomesExpired(h)) =>
            /\ hunts[h].hider \in Addresses
            /\ balance' = balance - (hunts[h].initialPrize + totalContributions[h])
            /\ \A a \in Addresses \cup {ZeroAddress} :
                  IF a = hunts[h].hider
                  THEN received'[a] = received[a] + hunts[h].initialPrize
                                          + totalContributions[h]
                  ELSE received'[a] = received[a] ]_vars

(***************************************************************************)
(* What is stored under hunt id b: the Hunt, the Claim, the contributions, *)
(* the purchase flags and the contribution total.                          *)
(***************************************************************************)
Record(b) ==
    << hunts[b], claims[b], contributions[b], hasPurchasedHint[b], totalContributions[b] >>

(***************************************************************************)
(* C17: isolation.  A purchaseHint, claimTreasure, withdraw or expireHunt  *)
(* call on hunt id a, accepted or not, leaves what is stored under every   *)
(* other id b unchanged; createHunt changes only the Hunt of the new id    *)
(* and huntCounter.                                                        *)
(***************************************************************************)
C17_Isolation ==
    [][ /\ \A b \in HuntIds : Record(b)' # Record(b) =>
              \A a \in HuntIds \ {b}, sender \in Addresses :
                  /\ \A v \in Payments : ~purchaseHint(sender, a, v)
                  /\ \A c \in ClaimCalls : ~claimTreasure(sender, a, c[1], c[2])
                  /\ ~withdraw(sender, a)
                  /\ ~expireHunt(sender, a)
        /\ \A c \in CreateHuntCalls :
              createHunt(c[1], c[2], c[3], c[4], c[5], c[6]) =>
                  /\ UNCHANGED << claims, contributions, hasPurchasedHint,
                                  totalContributions >>
                  /\ \A b \in HuntIds \ {huntCounter} : hunts'[b] = hunts[b] ]_vars

\* both hunts are registered; one has been bought into, claimed and paid
\* out of, the other has been bought into and is still Active
C17_Witness ==
    \E a \in HuntIds, b \in HuntIds :
        /\ a # b
        /\ huntCounter = 2
        /\ hunts[a].status = "Claimed"
        /\ claims[a].totalWithdrawn > 0
        /\ totalContributions[a] > 0
        /\ hunts[b].status = "Active"
        /\ totalContributions[b] > 0
        /\ claims[b] = EmptyClaim

(***************************************************************************)
(* C18: failure atomicity.  A call that is rejected, whether a require on  *)
(* the parameters, on the status or the time fails or the verifier returns *)
(* false, leaves huntCounter, hunts, claims, contributions, purchase       *)
(* flags, totals and balances as they were; a rejected claimTreasure       *)
(* creates no Claim and changes no status.                                 *)
(***************************************************************************)
C18_FailureAtomicity ==
    [][ vars' # vars =>
          /\ \A c \in CreateHuntCalls :
                createHuntResult(c[3], c[4], c[6]) # "ok" =>
                    ~createHunt(c[1], c[2], c[3], c[4], c[5], c[6])
          /\ \A sender \in Addresses, h \in HuntIds :
                /\ \A v \in Payments :
                      purchaseHintResult(sender, h, v) # "ok" => ~purchaseHint(sender, h, v)
                /\ \A c \in ClaimCalls :
                      claimTreasureResult(sender, h, c[1], c[2]) # "ok" =>
                          ~claimTreasure(sender, h, c[1], c[2])
                /\ withdrawResult(sender, h) # "ok" => ~withdraw(sender, h)
                /\ expireHuntResult(sender, h) # "ok" => ~expireHunt(sender, h) ]_vars

\* on one hunt a claim with a proof the verifier refuses, a purchase that
\* pays too little, a withdrawal and an expiry would all be rejected
C18_Witness ==
    \E h \in HuntIds, sender \in Addresses :
        /\ Registered(h)
        /\ totalContributions[h] > 0
        /\ claimTreasureResult(sender, h, BogusProof, Signal1) = "Invalid proof"
        /\ claimTreasureResult(sender, h, ProofFor(Signal1), WrongSignal) = "Invalid proof"
        /\ purchaseHintResult(sender, h, 0) = "Insufficient payment"
        /\ withdrawResult(sender, h) = "Not claimed"
        /\ expireHuntResult(sender, h) = "Not expired yet"

(***************************************************************************)
(* C19: hunt ids are fresh and increasing.  The k-th successful createHunt *)
(* stores its hunt under id k: huntCounter changes only by a successful    *)
(* createHunt, by one, the id it hands out is the old huntCounter, only    *)
(* ids below huntCounter hold a created hunt, and the new hunt is Active   *)
(* with a pot balance equal to the deposit.                                *)
(***************************************************************************)
C19_FreshIds ==
    /\ [](\A h \in HuntIds :
            /\ hunts[h].hider # ZeroAddress => Registered(h)
            /\ Registered(h) => hunts[h].hider # ZeroAddress)
    /\ [][ /\ huntCounter' # huntCounter =>
                /\ huntCounter' = huntCounter + 1
                /\ \E c \in CreateHuntCalls, k \in HuntIds :
                      /\ k = huntCounter
                      /\ createHunt(c[1], c[2], c[3], c[4], c[5], c[6])
                      /\ hunts'[k].hider = c[1]
                      /\ hunts'[k].status = "Active"
                      /\ getPotBalance(k)' = c[6]
           /\ \A h \in HuntIds :
                hunts'[h].hider # hunts[h].hider =>
                    (h = huntCounter /\ huntCounter' = huntCounter + 1) ]_vars

(***************************************************************************)
(* The schedule under which withdrawals make progress: block timestamps    *)
(* keep advancing up to the last instant a run visits, and the claimer of  *)
(* each hunt sends withdraw again whenever a call of theirs would succeed. *)
(***************************************************************************)
LastInstant == Instant(MaxInstants)

Fairness ==
    /\ WF_vars(DoAdvance)
    /\ \A h \in HuntIds : WF_vars(withdraw(claims[h].claimer, h))

LiveSpec == Init /\ [][Next]_vars /\ Fairness

(***************************************************************************)
(* C20: withdrawal progress.  While the claimer keeps withdrawing and time *)
(* keeps advancing, the pot of a Claimed hunt does not get stuck at a      *)
(* positive value: from every state in which it is positive, it reaches 0, *)
(* or the run arrives at its last instant with the claimer's latest        *)
(* withdrawal made and the next one not yet due.  Every successful         *)
(* withdrawal strictly decreases a positive pot balance.                   *)
(***************************************************************************)
C20_WithdrawalProgress ==
    /\ \A h \in HuntIds :
          (hunts[h].status = "Claimed" /\ getPotBalance(h) > 0)
              ~> \/ getPotBalance(h) = 0
                 \/ now = LastInstant /\ ~withdrawalDue(h)
    /\ [][ \A h \in HuntIds : Withdraws(h) =>
              /\ getPotBalance(h) > 0
              /\ getPotBalance(h)' < getPotBalance(h) ]_vars

(***************************************************************************)
(* C21: claim postcondition.  A successful claimTreasure by caller c at    *)
(* time t stores, in that one step, the Claim with claimer c, claimTime t, *)
(* lastWithdrawal 0 and totalWithdrawn 0 and sets the status to Claimed;   *)
(* nothing else of the hunt changes and no funds move.                     *)
(***************************************************************************)
C21_ClaimPostcondition ==
    [][ \A h \in HuntIds :
          /\ (vars' # vars /\ ~BecomesClaimed(h)) =>
                \A sender \in Addresses, c \in ClaimCalls :
                    claimTreasureResult(sender, h, c[1], c[2]) = "ok" =>
                        ~claimTreasure(sender, h, c[1], c[2])
          /\ BecomesClaimed(h) =>
                /\ \A sender \in Addresses, c \in ClaimCalls :
                      claimTreasure(sender, h, c[1], c[2]) => claims'[h].claimer = sender
                /\ claims[h] = EmptyClaim
                /\ claims'[h].claimer \in Addresses
                /\ claims'[h].claimTime = now
                /\ claims'[h].lastWithdrawal = 0
                /\ claims'[h].totalWithdrawn = 0
                /\ hunts'[h] = [hunts[h] EXCEPT !.status = "Claimed"]
                /\ getPotBalance(h)' = getPotBalance(h)
                /\ UNCHANGED << now, huntCounter, contributions, hasPurchasedHint,
                                totalContributions, balance, received >>
                /\ \A h2 \in HuntIds \ {h} :
                      hunts'[h2] = hunts[h2] /\ claims'[h2] = claims[h2] ]_vars

\* a hunt with a contribution has just been claimed: the claim is fresh and
\* the whole pot is still held
C21_Witness ==
    \E h \in HuntIds :
        /\ hunts[h].status = "Claimed"
        /\ claims[h].claimer \in Addresses
        /\ claims[h].claimTime = now
        /\ claims[h].totalWithdrawn = 0
        /\ totalContributions[h] > 0
        /\ received = [a \in Addresses \cup {ZeroAddress} |-> 0]
        /\ balance = hunts[h].initialPrize + totalContributions[h]

\* C22: the circuit's distance constraint is satisfiable exactly for the
\* coordinate pairs whose squared distance is at most the radius squared, the
\* boundary included, and it agrees on every input with isWithinRadius and
\* checkDistance, the gates before proof generation.
C22_DistancePredicate ==
    (calc.fn = "DistanceCheck" /\ calc.out # << >>) =>
        LET gps == calc.args[1]
            target == calc.args[2]
        IN  /\ calc.out[1] <=>
                  (distanceSquared(gps[1], gps[2], target[1], target[2]) <= RADIUS_SQUARED)
            /\ calc.out[1] <=> calc.out[2]
            /\ calc.out[1] <=> calc.out[3]

\* the three predicates agree wherever the distance is not exactly the radius
DistanceGatesAgreeOffBoundary ==
    (calc.fn = "DistanceCheck" /\ calc.out # << >>) =>
        LET gps == calc.args[1]
            target == calc.args[2]
        IN  /\ calc.out[2] <=> calc.out[3]
            /\ distanceSquared(gps[1], gps[2], target[1], target[2]) # RADIUS_SQUARED =>
                  (calc.out[1] <=> calc.out[2])

\* C23: the commitment functions reject an input that is not below the field
\* modulus rather than reducing it, so two distinct inputs congruent modulo
\* the field modulus never yield the same commitment.
C23_FieldRangeRejection ==
    /\ (calc.fn = "computeSecretHash" /\ calc.out # << >>) =>
          /\ \A i \in 1..2 : calc.args[i] \in 0 .. (FieldModulus - 1)
          /\ calc.args[1] # calc.args[2] => calc.out[1] # calc.out[2]
    /\ (calc.fn = "computeLocationCommitment" /\ calc.out # << >>) =>
          /\ \A i \in 1..2 : \A j \in 1..3 : calc.args[i][j] \in 0 .. (FieldModulus - 1)
          /\ calc.args[1] # calc.args[2] => calc.out[1] # calc.out[2]

\* inputs below the field modulus never collide
CommitmentsInjectiveInField ==
    /\ (calc.fn = "computeSecretHash" /\ calc.out # << >>) =>
          ((\A i \in 1..2 : calc.args[i] \in 0 .. (FieldModulus - 1)) =>
              (calc.args[1] # calc.args[2] => calc.out[1] # calc.out[2]))
    /\ (calc.fn = "computeLocationCommitment" /\ calc.out # << >>) =>
          ((\A i \in 1..2 : \A j \in 1..3 : calc.args[i][j] \in 0 .. (FieldModulus - 1)) =>
              (calc.args[1] # calc.args[2] => calc.out[1] # calc.out[2]))

C26_ExpiredPotEmpty ==
    \A h \in HuntIds :
        (Registered(h) /\ hunts[h].status = "Expired") =>
            /\ getPotBalance(h) = 0
            /\ getHunt(h).prize = 0

\* C27: for every hunt id the status is Claimed exactly when a Claim with a
\* non-zero claimer is stored; so a claim on a hunt that has one is rejected
\* by the status check with 'Hunt not active', and no claimTreasure call is
\* ever rejected with 'Already claimed'.
C27_ClaimMatchesStatus ==
    \A h \in HuntIds :
        /\ hunts[h].status = "Claimed" <=> claims[h].claimer # ZeroAddress
        /\ \A sender \in Addresses, c \in ClaimCalls :
              /\ claimTreasureResult(sender, h, c[1], c[2]) # "Already claimed"
              /\ claims[h].claimer # ZeroAddress =>
                    claimTreasureResult(sender, h, c[1], c[2]) = "Hunt not active"

\* a claimed hunt inside its claim window, where another account holds a
\* proof that verifies: only the status check stands against a second claim
C27_Witness ==
    \E h \in HuntIds :
        /\ hunts[h].status = "Claimed"
        /\ claims[h].claimer # ZeroAddress
        /\ now >= hunts[h].claimableAfter
        /\ now < hunts[h].expiresAt
        /\ \E sender \in Addresses \ { claims[h].claimer }, c \in ClaimCalls :
              /\ verifyProof(c[1], c[2])
              /\ claimTreasureResult(sender, h, c[1], c[2]) = "Hunt not active"

\* C28: contributions are append-only and consistent: for every hunt id
\* totalContributions[id] is the sum over the accounts of
\* contributions[id][account], neither value ever decreases, and each
\* successful purchaseHint adds the whole payment, any amount above hintPrice
\* included, to both.
C28_ContributionsAppendOnly ==
    /\ [](\A h \in HuntIds : totalContributions[h] = SumOver(contributions[h], Addresses))
    /\ [][ \A h \in HuntIds :
             /\ totalContributions'[h] >= totalContributions[h]
             /\ \A a \in Addresses :
                   /\ contributions'[h][a] >= contributions[h][a]
                   /\ \A value \in Payments :
                         (purchaseHintResult(a, h, value) = "ok" /\ purchaseHint(a, h, value)) =>
                             /\ contributions'[h][a] = contributions[h][a] + value
                             /\ totalContributions'[h] = totalContributions[h] + value ]_vars

\* a registered hunt whose two purchasers each paid more than the hint price
C28_Witness ==
    \E h \in HuntIds :
        /\ Registered(h)
        /\ hunts[h].hintPrice > 0
        /\ \A a \in Addresses :
              hasPurchasedHint[h][a] /\ contributions[h][a] > hunts[h].hintPrice
        /\ totalContributions[h] = 2 * MaxValue

\* C29: a stored Claim is changed only by withdrawals: its claimer and
\* claimTime never change, and lastWithdrawal and totalWithdrawn change only
\* in a successful withdraw on that hunt, in which totalWithdrawn grows and
\* lastWithdrawal becomes the current time, never an earlier one.
C29_ClaimMutatedOnlyByWithdraw ==
    [][ \A h \in HuntIds :
          claims[h].claimer # ZeroAddress =>
              /\ claims'[h].claimer = claims[h].claimer
              /\ claims'[h].claimTime = claims[h].claimTime
              /\ claims'[h] # claims[h] =>
                    /\ withdrawResult(claims[h].claimer, h) = "ok"
                    /\ withdraw(claims[h].claimer, h)
                    /\ claims'[h].totalWithdrawn > claims[h].totalWithdrawn
                    /\ claims'[h].lastWithdrawal = now
                    /\ claims'[h].lastWithdrawal >= claims[h].lastWithdrawal ]_vars

\* a claim made at one time and withdrawn from twice, the second time later
C29_Witness ==
    \E h \in HuntIds :
        /\ claims[h].claimer # ZeroAddress
        /\ claims[h].lastWithdrawal > claims[h].claimTime
        /\ claims[h].totalWithdrawn = hunts[h].initialPrize + totalContributions[h]
        /\ claims[h].totalWithdrawn > 1

\* C30: the parameters of a hunt are immutable: once an id is registered,
\* its creator, locationCommitment, initialPrize, createdAt, claimableAfter,
\* expiresAt and hintPrice never change under any later operation, later
\* createHunt calls included; only the status changes.
C30_HuntParametersImmutable ==
    [][ \A h \in HuntIds :
          Registered(h) =>
              /\ Registered(h)'
              /\ hunts'[h].hider = hunts[h].hider
              /\ hunts'[h].locationCommitment = hunts[h].locationCommitment
              /\ hunts'[h].initialPrize = hunts[h].initialPrize
              /\ hunts'[h].createdAt = hunts[h].createdAt
              /\ hunts'[h].claimableAfter = hunts[h].claimableAfter
              /\ hunts'[h].expiresAt = hunts[h].expiresAt
              /\ hunts'[h].hintPrice = hunts[h].hintPrice ]_vars

\* a hunt whose status has changed, with another hunt registered after it
\* by another account and with other parameters
C30_Witness ==
    /\ huntCounter = 2
    /\ hunts[0].status # "Active"
    /\ hunts[0].hider # hunts[1].hider
    /\ hunts[0].createdAt < hunts[1].createdAt
    /\ hunts[0].initialPrize # hunts[1].initialPrize

\* C31: canWithdraw agrees with withdraw: at any time canWithdraw(h) is true
\* exactly when a withdraw(h) call by the recorded claimer would succeed, and
\* it is false when the hunt is not claimed, the interval has not elapsed,
\* the pot is empty, or the asking account is not the claimer.
C31_CanWithdrawAgrees ==
    \A h \in HuntIds, asker \in Addresses :
        /\ canWithdraw(asker, h) <=> withdrawResult(claims[h].claimer, h) = "ok"
        /\ hunts[h].status # "Claimed" => ~canWithdraw(asker, h)
        /\ (hunts[h].status = "Claimed" /\ ~withdrawalDue(h)) => ~canWithdraw(asker, h)
        /\ getPotBalance(h) = 0 => ~canWithdraw(asker, h)
        /\ asker # claims[h].claimer => ~canWithdraw(asker, h)

\* for the claimer, while the contract holds the pot, canWithdraw is true
\* exactly when the claimer's withdraw would succeed
CanWithdrawAgreesForClaimer ==
    \A h \in HuntIds :
        balance >= getPotBalance(h) =>
            (canWithdraw(claims[h].claimer, h) <=> withdrawResult(claims[h].claimer, h) = "ok")

(***************************************************************************)
(* The schedule under which expired hunts get closed: block timestamps     *)
(* keep advancing, and for each hunt somebody sends expireHunt whenever    *)
(* the call would succeed (the call is open to every account).             *)
(***************************************************************************)
ExpiryFairness ==
    /\ WF_vars(DoAdvance)
    /\ \A h \in HuntIds : WF_vars(\E sender \in Addresses : expireHunt(sender, h))

ExpirySpec == Init /\ [][Next]_vars /\ ExpiryFairness

\* C32: unclaimed funds are never stuck: for every registered hunt that is
\* still Active when the time reaches expiresAt, expireHunt succeeds for
\* every caller from then on, so the hunt eventually becomes Expired, and
\* the step that expires it returns its whole balance to the creator.
C32_UnclaimedFundsNotStuck ==
    /\ \A h \in HuntIds :
          (Registered(h) /\ hunts[h].status = "Active" /\ now >= hunts[h].expiresAt)
              ~> hunts[h].status = "Expired"
    /\ [](\A h \in HuntIds, sender \in Addresses :
            (Registered(h) /\ hunts[h].status = "Active" /\ now >= hunts[h].expiresAt)
                => expireHuntResult(sender, h) = "ok")
    /\ [][ \A h \in HuntIds : (Registered(h) /\ BecomesExpired(h)) =>
            /\ received'[hunts[h].hider] =
                  received[hunts[h].hider] + hunts[h].initialPrize + totalContributions[h]
            /\ balance' = balance - (hunts[h].initialPrize + totalContributions[h]) ]_vars

\* the part that holds: a registered hunt that is Active at or after its
\* deadline while the contract holds its pot eventually becomes Expired, or
\* the contract stops holding its pot
ExpiryProgressWhileFunded ==
    \A h \in HuntIds :
        (Registered(h) /\ hunts[h].status = "Active" /\ now >= hunts[h].expiresAt
            /\ balance >= getPotBalance(h))
            ~> (hunts[h].status = "Expired" \/ balance < getPotBalance(h))

(***************************************************************************)
(* Reading the event log.                                                  *)
(***************************************************************************)
\* the sum of the amounts of the events in S, each counted as often as logged
RECURSIVE SumAmounts(_)
SumAmounts(S) ==
    IF S = {} THEN 0
    ELSE LET e == CHOOSE x \in S : TRUE
         IN  e.amount * CopiesIn(e, events) + SumAmounts(S \ {e})

\* the logged events of one type for one hunt
Logged(type, h) == { e \in BagToSet(events) : e.type = type /\ e.huntId = h }

\* the step logs exactly the event e and nothing else
LogsOnly(e) == events' = events (+) SetToBag({ e })

\* C33: the event log reconstructs the ledger: each successful createHunt,
\* purchaseHint, claimTreasure, withdraw and expireHunt emits exactly one
\* event of the matching type, a rejected call emits none, and for every
\* hunt the Withdrawal amounts add up to totalWithdrawn and the
\* HintPurchased amounts to totalContributions.
C33_EventLogReconstructs ==
    /\ [](\A h \in HuntIds :
            /\ SumAmounts(Logged("Withdrawal", h)) = claims[h].totalWithdrawn
            /\ SumAmounts(Logged("HintPurchased", h)) = totalContributions[h])
    /\ [][ /\ ledger' = ledger => events' = events
           /\ huntCounter' # huntCounter =>
                 \E h \in HuntIds :
                    /\ h = huntCounter
                    /\ LogsOnly(HuntCreated(h, hunts'[h].hider, hunts'[h].locationCommitment,
                                            hunts'[h].initialPrize, hunts'[h].claimableAfter))
           /\ \A h \in HuntIds :
                 /\ \A a \in Addresses :
                       hasPurchasedHint'[h][a] # hasPurchasedHint[h][a] =>
                           LogsOnly(HintPurchased(h, a, contributions'[h][a] - contributions[h][a]))
                 /\ BecomesClaimed(h) => LogsOnly(ClaimSubmitted(h, claims'[h].claimer))
                 /\ Withdraws(h) =>
                       LogsOnly(Withdrawal(h, claims[h].claimer,
                                           claims'[h].totalWithdrawn - claims[h].totalWithdrawn))
                 /\ BecomesExpired(h) => LogsOnly(HuntExpired(h)) ]_vars

\* a log with all five types of event, two of them withdrawals of one hunt
C33_Witness ==
    /\ \A type \in { "HuntCreated", "HintPurchased", "ClaimSubmitted", "Withdrawal", "HuntExpired" } :
          \E e \in BagToSet(events) : e.type = type
    /\ \E h \in HuntIds :
          /\ Registered(h)
          /\ \/ Cardinality(Logged("Withdrawal", h)) > 1
             \/ \E e \in Logged("Withdrawal", h) : CopiesIn(e, events) > 1
          /\ claims[h].totalWithdrawn = SumAmounts(Logged("Withdrawal", h))
          /\ claims[h].totalWithdrawn > 1

C35_WebClientGating ==
    /\ ~app.generateDisabled =>
          /\ app.address # ZeroAddress
          /\ app.huntData # NoHuntData
          /\ app.location # NoLocation
    /\ ~app.submitDisabled => app.proof # NoProof

\* the part that holds: the submit control is enabled only with a proof held
SubmitGating == ~app.submitDisabled => app.proof # NoProof

\* C36: no stale proof in the web client: a proof that the app holds was
\* generated from the hunt data, location and wallet address now loaded
\* (clearing or replacing hunt data or location discards it), and
\* submitClaim never sends a proof built for other inputs.
C36_NoStaleProof ==
    /\ app.proof # NoProof =>
          app.proof.inputs = << app.address, app.huntData, app.location >>
    /\ app.sent[2] # NoProof => app.sent[2].inputs[2].huntId = app.sent[1]

\* a proof is stored only by a proof generation that resolves, from the
\* inputs read at its click
ProofComesFromGeneration ==
    [][ app'.proof # app.proof =>
            \/ app'.proof = NoProof
            \/ /\ app'.proof.inputs \in app.proving
               /\ app'.proof.proof = ProofOf(app'.proof.inputs) ]_vars

====
